---- MODULE Spec2Model ----
(***************************************************************************)
(* Snackager: the batch bundler (src/src/bundler.js) that builds, uploads  *)
(* and indexes one artifact per (package, version), and the API server     *)
(* (src/unnamed/part_000, second half) that answers lookups from its own   *)
(* in-memory copy of the index file ./data/index.json.                     *)
(*                                                                         *)
(* Strings of the program are sequences of one-character strings, so that  *)
(* key building, file-name sanitising and '@' tests are computed.          *)
(***************************************************************************)
EXTENDS Integers, Sequences, FiniteSets, TLC

VARIABLES
    pc,           \* position of the bundler process in main()/bundlePackage()
    packages,     \* main: the parsed ./data/packages.json
    i,            \* main: loop counter
    index,        \* bundler.js: the in-memory index object
    stats,        \* main: run counters
    failed,       \* main: the failed[] list
    cur,          \* bundlePackage: locals of the pipeline in progress
    log,          \* console messages of the bundler process (tags)
    orchLoad,     \* what loadIndex() of the bundler process found on disk
    runs,         \* number of bundler processes started so far
    builds,       \* history: how often each name@version was committed
    committed,    \* history: number and bytes of the commits of the current process
    faults,       \* history: failures of external calls so far
    crashes,      \* history: kills of the bundler process so far
    packagesFile, \* ./data/packages.json
    indexFile,    \* ./data/index.json
    failedFile,   \* ./data/failed.json
    persisted,    \* history: the index object the last completed saveIndex() wrote
    tmp,          \* the directories under ./temp
    blob,         \* Appwrite bucket: fileId -> uploaded artifact
    blobIndex,    \* Appwrite bucket: the file stored under the id 'index'
    qsState,      \* API server process: "down", "up" or "crashed"
    qsIndex,      \* API server: its in-memory index object
    qsResp,       \* API server: the last response sent
    qsLoad        \* API server: what its last loadIndex() found on disk

vars == <<pc, packages, i, index, stats, failed, cur, log, orchLoad, runs, builds, committed,
          committed,
          faults, crashes,
          packagesFile, indexFile, failedFile, persisted, tmp, blob, blobIndex,
          qsState, qsIndex, qsResp, qsLoad>>

orchVars == <<pc, packages, i, index, stats, failed, cur, log, orchLoad, runs, builds, committed,
             committed>>
fileVars == <<packagesFile, indexFile, failedFile, persisted>>
diskVars == <<packagesFile, indexFile, failedFile, persisted, tmp>>
storeVars == <<blob, blobIndex>>
qsVars == <<qsState, qsIndex, qsResp, qsLoad>>
envVars == <<faults, crashes>>

----------------------------------------------------------------------------
(* Bounds of the model *)

\* bundler processes that may be started one after the other
MaxRuns == 2
\* length of the long package list (more than one save period)
LongLen == 27
\* failures of external calls (registry, npm install, esbuild, bucket) in one behaviour
MaxFaults == 1
\* kills of the bundler process in one behaviour
MaxCrashes == 1

\* main: "Save every 25 packages"
SaveEvery == 25

----------------------------------------------------------------------------
(* Strings *)

Null == <<>>

Digits == <<"0", "1", "2", "3", "4", "5", "6", "7", "8", "9">>

Digit(d) == Digits[d + 1]

Axios == <<"a", "x", "i", "o", "s">>
Scoped == <<"@", "s", "/", "n">>
React == <<"r", "e", "a", "c", "t">>
Moti == <<"m", "o", "t", "i">>

\* the k-th name of the long list: "p00", "p01", ...
Filler(k) == <<"p", Digit(k \div 10), Digit(k % 10)>>

V1 == <<"1">>
V2 == <<"2">>
Versions == {V1, V2}

\* the part of SKIP_PACKAGES the package lists of the model draw from
SKIP_PACKAGES == {React, Moti}

ShortNames == {Axios, Scoped}
FillerNames == {Filler(k) : k \in 1..(LongLen - 1)}
Names == ShortNames \cup SKIP_PACKAGES \cup FillerNames

LongList == [k \in 1..LongLen |-> IF k = 1 THEN Scoped ELSE Filler(k - 1)]
ShortLists == {<<Axios, React, Axios>>}
PackageFiles == ShortLists \cup {LongList}

\* the list behind the index the API server is queried on
QueryLists == {<<Axios, Scoped, Axios>>}

\* what the clients of the API server ask for: a name the index may hold, a
\* scoped one, and a name no index holds that Object.prototype has a member for
Constructor == <<"c", "o", "n", "s", "t", "r", "u", "c", "t", "o", "r">>
RequestNames == {Axios, Scoped, Constructor}
VAt == <<"1", "@", "2">>
RequestVersions == {Null, V1, V2, VAt}
BundleRequests ==
    {[name |-> n, version |-> v] : n \in {Axios, Scoped}, v \in RequestVersions}
    \cup {[name |-> Constructor, version |-> Null]}

\* what `npm view <pkg> version` may print: the names of the long list have one
\* published version, the others two
Published(pkg) == IF pkg \in FillerNames THEN {V1} ELSE Versions

\* the packages for which the registry, npm install, esbuild or the upload may
\* fail; the filler names of the long list always build
Flaky(pkg) == pkg \notin FillerNames

\* the 1024 * 1024 bytes GET /stats reports sizes in
Mebi == 1024 * 1024

\* fs.statSync(bundlePath).size of the bundle of pkg@version
BundleSize(pkg, version) == IF version = V1 THEN Mebi ELSE 2 * Mebi

isBuiltInNever(pkg) == FALSE

isBuiltIn(pkg) == pkg \in SKIP_PACKAGES

\* `${pkg}@${version}`
Key(pkg, version) == pkg \o <<"@">> \o version

\* str.replace(/[@/]/g, '-')
ReplaceAtSlash(s) == [k \in 1..Len(s) |-> IF s[k] \in {"@", "/"} THEN "-" ELSE s[k]]

\* str.replace(/^-/, '')
DropLeadingDash(s) == IF Len(s) > 0 /\ s[1] = "-" THEN Tail(s) ELSE s

getFileName(pkg, version) ==
    DropLeadingDash(ReplaceAtSlash(pkg)) \o <<"@">> \o version \o <<".js">>

Url(fileId) == <<"files", fileId, "view">>

\* path.resolve(`./temp/${safeName}`), safeName = pkg.replace(/[@/]/g, '-')
TmpDir(pkg) == ReplaceAtSlash(pkg)

\* the packages whose working directory fs.rmSync may fail to remove (a file
\* of it still open, a permission): the scoped one
MayStick(pkg) == pkg = Scoped

----------------------------------------------------------------------------
(* The index *)

EmptyIndex == <<>>

Put(idx, k, e) == [x \in (DOMAIN idx) \cup {k} |-> IF x = k THEN e ELSE idx[x]]

\* the keys `${name}@${version}` of the model's names and versions
AllVersionedKeys == {Key(n, v) : n \in Names, v \in Versions}

IsVersionedKey(k) == k \in AllVersionedKeys

VersionedKeys(idx) == {k \in DOMAIN idx : IsVersionedKey(k)}

isVersionBundledNever(pkg, version) == FALSE

isVersionBundledByName(pkg, version) ==
    pkg \in DOMAIN index /\ index[pkg].fileId # 0

isVersionBundled(pkg, version) ==
    LET key == Key(pkg, version)
    IN  key \in DOMAIN index /\ index[key].fileId # 0

\* ID.unique(): an id no file of the bucket has
NewFileId == Cardinality(DOMAIN blob) + 1

\* new Date().toISOString(): time advances with every upload
Now == Cardinality(DOMAIN blob) + 1

Entry(pkg, version, fileId, size) ==
    [name |-> pkg, version |-> version, fileId |-> fileId,
     fileName |-> getFileName(pkg, version), url |-> Url(fileId),
     size |-> size, uploadedAt |-> Now]

LatestPointer(entry) ==
    [name |-> entry.name, version |-> entry.version, fileId |-> entry.fileId,
     fileName |-> entry.fileName, url |-> entry.url, size |-> entry.size,
     uploadedAt |-> entry.uploadedAt, latestVersion |-> entry.version]

CommitKeepsHigher(idx, entry) ==
    IF entry.name \in DOMAIN idx /\ idx[entry.name].latestVersion = V2 /\ entry.version = V1
    THEN Put(idx, Key(entry.name, entry.version), entry)
    ELSE Put(Put(idx, Key(entry.name, entry.version), entry), entry.name, LatestPointer(entry))

CommitFirstPointerOnly(idx, entry) ==
    IF entry.name \in DOMAIN idx
    THEN Put(idx, Key(entry.name, entry.version), entry)
    ELSE Put(Put(idx, Key(entry.name, entry.version), entry), entry.name, LatestPointer(entry))

\* index[key] = entry; index[pkg] = {...entry, latestVersion: version}
Commit(idx, entry) ==
    Put(Put(idx, Key(entry.name, entry.version), entry), entry.name, LatestPointer(entry))

----------------------------------------------------------------------------
(* Results of bundlePackage *)

NoResult == [kind |-> "none", reason |-> "", version |-> Null, size |-> 0, error |-> ""]
Skipped(reason, version) ==
    [kind |-> "skipped", reason |-> reason, version |-> version, size |-> 0, error |-> ""]
Bundled(version, size) ==
    [kind |-> "bundled", reason |-> "", version |-> version, size |-> size, error |-> ""]
Failure(error, version) ==
    [kind |-> "failed", reason |-> "", version |-> version, size |-> 0, error |-> error]

NoCur == [pkg |-> Null, version |-> Null, size |-> 0, calls |-> {},
          before |-> EmptyIndex, result |-> NoResult, rm |-> "none"]

ZeroStats == [bundled |-> 0, skippedBuiltin |-> 0, skippedExists |-> 0,
              failed |-> 0, totalSize |-> 0]

----------------------------------------------------------------------------
(* JSON.stringify and JSON.parse on the index object: the text of the file is
   the object's members in text form, a number as its decimal digits and a
   string quoted *)

RECURSIVE Decimal(_)
Decimal(n) == IF n < 10 THEN <<Digit(n)>> ELSE Decimal(n \div 10) \o <<Digit(n % 10)>>

DigitValues == [c \in {Digits[k] : k \in 1..10} |-> CHOOSE d \in 0..9 : Digits[d + 1] = c]

DigitValue(c) == DigitValues[c]

\* the number the first n digits of t stand for
RECURSIVE DecimalPrefix(_, _)
DecimalPrefix(t, n) ==
    IF n = 0 THEN 0 ELSE 10 * DecimalPrefix(t, n - 1) + DigitValue(t[n])

FromDecimalLastDigit(t) == DigitValue(t[Len(t)])

FromDecimal(t) == DecimalPrefix(t, Len(t))

\* the members of an entry that are numbers in the program
NumberFields == {"size"}

JsonValue(f, v) == IF f \in NumberFields THEN <<"num", Decimal(v)>> ELSE <<"str", v>>

JsonStringify(idx) ==
    [k \in DOMAIN idx |-> [f \in DOMAIN idx[k] |-> JsonValue(f, idx[k][f])]]

JsonParse(text) ==
    [k \in DOMAIN text |->
        [f \in DOMAIN text[k] |->
            IF text[k][f][1] = "num" THEN FromDecimal(text[k][f][2]) ELSE text[k][f][2]]]

NoFile == [st |-> "missing", data |-> EmptyIndex]
Partial == [st |-> "partial", data |-> EmptyIndex]
Written(idx) == [st |-> "ok", data |-> JsonStringify(idx)]

NoResp == [route |-> "none", status |-> 0, entries |-> 0]
NoLoad == [at |-> "none", found |-> "none"]
NoCommits == [n |-> 0, bytes |-> 0]

Running == {"pkg", "install", "bundle", "upload", "account", "save", "saving",
            "final", "finalsaving", "mirror"}

\* second and later processes are explored over the short lists; every other
\* list is processed by one process
RunLimit == IF packagesFile \in ShortLists THEN MaxRuns ELSE 1

----------------------------------------------------------------------------
InitFrom(files) ==
    /\ pc = "idle"
    /\ packages = <<>>
    /\ i = 0
    /\ index = EmptyIndex
    /\ stats = ZeroStats
    /\ failed = <<>>
    /\ cur = NoCur
    /\ log = {}
    /\ orchLoad = "none"
    /\ runs = 0
    /\ builds = <<>>
    /\ committed = NoCommits
    /\ faults = 0
    /\ crashes = 0
    /\ packagesFile \in files
    /\ indexFile = NoFile
    /\ failedFile = <<>>
    /\ persisted = EmptyIndex
    /\ tmp = {}
    /\ blob = <<>>
    /\ blobIndex = NoFile
    /\ qsState = "down"
    /\ qsIndex = EmptyIndex
    /\ qsResp = NoResp
    /\ qsLoad = NoLoad

Init == InitFrom(PackageFiles)

----------------------------------------------------------------------------
(* bundler.js: loadIndex and saveIndex *)

\* loadIndex(): the index and the console output it leaves, given the file and
\* the index object before the call
loadIndex(file, mem) ==
    IF file.st = "missing" THEN [index |-> mem, logged |-> {}]
    ELSE IF file.st = "ok" THEN [index |-> JsonParse(file.data), logged |-> {"loaded"}]
    ELSE [index |-> EmptyIndex, logged |-> {}]

\* fs.writeFileSync opens the file with O_TRUNC and then writes the text
saveIndexOpen == Partial
saveIndex(idx) == Written(idx)

\* the position after iteration k of the loop of main
LoopOrFinal(k) == IF k < Len(packages) THEN "pkg" ELSE "final"

----------------------------------------------------------------------------
(* bundler.js: main, up to the loop *)

MainStart ==
    /\ pc \in {"idle", "done", "crashed"}
    /\ runs < RunLimit
    /\ LET ld == loadIndex(indexFile, EmptyIndex)
       IN  /\ index' = ld.index
           /\ log' = ld.logged
    /\ orchLoad' = indexFile.st
    /\ packages' = packagesFile
    /\ stats' = ZeroStats
    /\ failed' = <<>>
    /\ i' = 0
    /\ cur' = NoCur
    /\ runs' = runs + 1
    /\ committed' = NoCommits
    /\ pc' = IF Len(packagesFile) > 0 THEN "pkg" ELSE "final"
    /\ UNCHANGED <<builds, envVars, diskVars, storeVars, qsVars>>

----------------------------------------------------------------------------
(* bundler.js: bundlePackage, one action per external call it waits for *)

\* the outcomes an external call made for pkg may have: TRUE is success
Outcomes(pkg) == IF Flaky(pkg) /\ faults < MaxFaults THEN BOOLEAN ELSE {TRUE}

Fault(ok) == faults' = IF ok THEN faults ELSE faults + 1

\* the outcomes of fs.rmSync(tmpDir, { recursive: true, force: true }) after
\* a call with outcome ok: TRUE is success
RmOutcomes(pkg, ok) ==
    IF MayStick(pkg) /\ faults + (IF ok THEN 0 ELSE 1) < MaxFaults THEN BOOLEAN ELSE {TRUE}

FaultAndRm(ok, rmOk) ==
    faults' = faults + (IF ok THEN 0 ELSE 1) + (IF rmOk THEN 0 ELSE 1)

CleanupNever(dirs, dir, rmOk) == dirs

\* finally { try { fs.rmSync(tmpDir, ...) } catch { } }: the directories left
Cleanup(dirs, dir, rmOk) == IF rmOk THEN dirs \ {dir} ELSE dirs

\* the locals of a pipeline that has run its finally block
Finally(c, rmOk) == [c EXCEPT !.rm = IF rmOk THEN "removed" ELSE "failed"]

\* isBuiltIn, getLatestVersion, isVersionBundled
Resolve ==
    /\ pc = "pkg"
    /\ LET pkg == packages[i + 1]
       IN  IF isBuiltIn(pkg)
           THEN /\ cur' = [NoCur EXCEPT !.pkg = pkg, !.before = index,
                                        !.result = Skipped("builtin", Null)]
                /\ pc' = "account"
                /\ UNCHANGED faults
           ELSE \E version \in Published(pkg) \cup (IF FALSE \in Outcomes(pkg) THEN {Null} ELSE {}) :
                  LET c == [NoCur EXCEPT !.pkg = pkg, !.before = index,
                                         !.version = version, !.calls = {"view"}]
                  IN  /\ Fault(version # Null)
                      /\ IF version = Null
                         THEN /\ cur' = [c EXCEPT !.result = Failure("Could not get version", Null)]
                              /\ pc' = "account"
                         ELSE IF isVersionBundled(pkg, version)
                         THEN /\ cur' = [c EXCEPT !.result = Skipped("version_exists", version)]
                              /\ pc' = "account"
                         ELSE /\ cur' = c
                              /\ pc' = "install"
    /\ UNCHANGED <<packages, i, index, stats, failed, log, orchLoad, runs, builds, committed,
                   crashes,
                   diskVars, storeVars, qsVars>>

\* fs.mkdirSync, execSync(npm init && npm install)
Install ==
    /\ pc = "install"
    /\ \E ok \in Outcomes(cur.pkg) :
         LET c == [cur EXCEPT !.calls = @ \cup {"install"}]
             made == tmp \cup {TmpDir(cur.pkg)}
         IN  IF ok
             THEN /\ Fault(ok)
                  /\ tmp' = made
                  /\ cur' = c
                  /\ pc' = "bundle"
             ELSE \E rmOk \in RmOutcomes(cur.pkg, ok) :
                  /\ FaultAndRm(ok, rmOk)
                  /\ tmp' = Cleanup(made, TmpDir(cur.pkg), rmOk)
                  /\ cur' = Finally([c EXCEPT !.result =
                                         Failure("install failed", cur.version)], rmOk)
                  /\ pc' = "account"
    /\ UNCHANGED <<packages, i, index, stats, failed, log, orchLoad, runs, builds, committed,
                   crashes,
                   fileVars, storeVars, qsVars>>

\* esbuild.build, fs.existsSync(bundlePath), fs.statSync(bundlePath).size
Bundle ==
    /\ pc = "bundle"
    /\ \E ok \in Outcomes(cur.pkg) :
         LET c == [cur EXCEPT !.calls = @ \cup {"esbuild"}]
         IN  IF ok
             THEN /\ Fault(ok)
                  /\ cur' = [c EXCEPT !.size = BundleSize(cur.pkg, cur.version)]
                  /\ pc' = "upload"
                  /\ UNCHANGED tmp
             ELSE \E rmOk \in RmOutcomes(cur.pkg, ok) :
                  /\ FaultAndRm(ok, rmOk)
                  /\ tmp' = Cleanup(tmp, TmpDir(cur.pkg), rmOk)
                  /\ cur' = Finally([c EXCEPT !.result =
                                         Failure("Build failed", cur.version)], rmOk)
                  /\ pc' = "account"
    /\ UNCHANGED <<packages, i, index, stats, failed, log, orchLoad, runs, builds, committed,
                   crashes,
                   fileVars, storeVars, qsVars>>

UploadCommitsBeforeStored ==
    /\ pc = "upload"
    /\ \E ok \in Outcomes(cur.pkg) : \E rmOk \in RmOutcomes(cur.pkg, ok) :
         LET c == Finally([cur EXCEPT !.calls = @ \cup {"upload"}], rmOk)
             fileId == NewFileId
             entry == Entry(cur.pkg, cur.version, fileId, cur.size)
             key == Key(cur.pkg, cur.version)
         IN  /\ FaultAndRm(ok, rmOk)
             /\ tmp' = Cleanup(tmp, TmpDir(cur.pkg), rmOk)
             /\ index' = Commit(index, entry)
             /\ builds' = Put(builds, key,
                              IF key \in DOMAIN builds THEN builds[key] + 1 ELSE 1)
             /\ committed' = [n |-> committed.n + 1, bytes |-> committed.bytes + cur.size]
             /\ IF ok
                THEN /\ blob' = Put(blob, fileId, [fileName |-> entry.fileName,
                                                   bytes |-> <<cur.pkg, cur.version>>])
                     /\ cur' = [c EXCEPT !.result = Bundled(cur.version, cur.size)]
                ELSE /\ cur' = [c EXCEPT !.result = Failure("upload failed", cur.version)]
                     /\ UNCHANGED blob
    /\ pc' = "account"
    /\ UNCHANGED <<packages, i, stats, failed, log, orchLoad, runs, crashes,
                   fileVars, blobIndex, qsVars>>

\* storage.createFile, then the index update and the return
Upload ==
    /\ pc = "upload"
    /\ \E ok \in Outcomes(cur.pkg) : \E rmOk \in RmOutcomes(cur.pkg, ok) :
         LET c == Finally([cur EXCEPT !.calls = @ \cup {"upload"}], rmOk)
             fileId == NewFileId
             entry == Entry(cur.pkg, cur.version, fileId, cur.size)
             key == Key(cur.pkg, cur.version)
         IN  /\ FaultAndRm(ok, rmOk)
             /\ tmp' = Cleanup(tmp, TmpDir(cur.pkg), rmOk)
             /\ IF ok
                THEN /\ blob' = Put(blob, fileId, [fileName |-> entry.fileName,
                                                   bytes |-> <<cur.pkg, cur.version>>])
                     /\ index' = Commit(index, entry)
                     /\ builds' = Put(builds, key,
                                      IF key \in DOMAIN builds THEN builds[key] + 1 ELSE 1)
                     /\ committed' = [n |-> committed.n + 1,
                                      bytes |-> committed.bytes + cur.size]
                     /\ cur' = [c EXCEPT !.result = Bundled(cur.version, cur.size)]
                ELSE /\ cur' = [c EXCEPT !.result = Failure("upload failed", cur.version)]
                     /\ UNCHANGED <<blob, index, builds, committed>>
    /\ pc' = "account"
    /\ UNCHANGED <<packages, i, stats, failed, log, orchLoad, runs, crashes,
                   fileVars, blobIndex, qsVars>>

----------------------------------------------------------------------------
(* bundler.js: main, the rest of one loop iteration *)

CountFailedAsSkipped(st, result) ==
    IF result.kind = "skipped" /\ result.reason = "builtin"
        THEN [st EXCEPT !.skippedBuiltin = @ + 1]
    ELSE IF result.kind = "bundled"
        THEN [st EXCEPT !.bundled = @ + 1, !.totalSize = @ + result.size]
    ELSE [st EXCEPT !.skippedExists = @ + 1]

Count(st, result) ==
    IF result.kind = "skipped" /\ result.reason = "builtin"
        THEN [st EXCEPT !.skippedBuiltin = @ + 1]
    ELSE IF result.kind = "skipped"
        THEN [st EXCEPT !.skippedExists = @ + 1]
    ELSE IF result.kind = "bundled"
        THEN [st EXCEPT !.bundled = @ + 1, !.totalSize = @ + result.size]
    ELSE [st EXCEPT !.failed = @ + 1]

SaveDue(k) == k > 0 /\ k % SaveEvery = 0

Account ==
    /\ pc = "account"
    /\ stats' = Count(stats, cur.result)
    /\ failed' = IF cur.result.kind = "failed"
                 THEN Append(failed, [name |-> cur.pkg, version |-> cur.result.version,
                                      error |-> cur.result.error])
                 ELSE failed
    /\ IF SaveDue(i)
       THEN /\ pc' = "save"
            /\ i' = i
       ELSE /\ pc' = LoopOrFinal(i + 1)
            /\ i' = i + 1
    /\ UNCHANGED <<packages, index, cur, log, orchLoad, runs, builds, committed,
                   envVars,
                   diskVars, storeVars, qsVars>>

SaveOpen ==
    /\ pc = "save"
    /\ indexFile' = saveIndexOpen
    /\ pc' = "saving"
    /\ UNCHANGED <<packages, i, index, stats, failed, cur, log, orchLoad, runs, builds, committed,
                   envVars, packagesFile, failedFile, persisted, tmp, storeVars, qsVars>>

SaveWrite ==
    /\ pc = "saving"
    /\ indexFile' = saveIndex(index)
    /\ persisted' = index
    /\ log' = log \cup {"saved"}
    /\ i' = i + 1
    /\ pc' = LoopOrFinal(i + 1)
    /\ UNCHANGED <<packages, index, stats, failed, cur, orchLoad, runs, builds, committed,
                   envVars, packagesFile, failedFile, tmp, storeVars, qsVars>>

----------------------------------------------------------------------------
(* bundler.js: main, after the loop *)

FinalSaveOpen ==
    /\ pc = "final"
    /\ indexFile' = saveIndexOpen
    /\ pc' = "finalsaving"
    /\ UNCHANGED <<packages, i, index, stats, failed, cur, log, orchLoad, runs, builds, committed,
                   envVars, packagesFile, failedFile, persisted, tmp, storeVars, qsVars>>

FinalSaveWrite ==
    /\ pc = "finalsaving"
    /\ indexFile' = saveIndex(index)
    /\ persisted' = index
    /\ pc' = "mirror"
    /\ UNCHANGED <<packages, i, index, stats, failed, cur, log, orchLoad, runs, builds, committed,
                   envVars, packagesFile, failedFile, tmp, storeVars, qsVars>>

MirrorIgnoresCreateError ==
    /\ pc = "mirror"
    /\ \E delOk \in BOOLEAN, createOk \in BOOLEAN :
         LET nFail == (IF delOk THEN 0 ELSE 1) + (IF createOk THEN 0 ELSE 1)
             afterDelete == IF delOk THEN NoFile ELSE blobIndex
             created == createOk /\ afterDelete.st = "missing"
         IN  /\ faults + nFail <= MaxFaults
             /\ faults' = faults + nFail
             /\ blobIndex' = IF created THEN indexFile ELSE afterDelete
    /\ failedFile' = IF Len(failed) > 0 THEN failed ELSE failedFile
    /\ pc' = "done"
    /\ UNCHANGED <<packages, i, index, stats, failed, cur, log, orchLoad, runs, builds, committed,
                   crashes, packagesFile, indexFile, persisted, tmp, blob, qsVars>>

\* storage.deleteFile('index') with its error swallowed, storage.createFile('index'),
\* the summary and ./data/failed.json
Mirror ==
    /\ pc = "mirror"
    /\ \E delOk \in BOOLEAN, createOk \in BOOLEAN :
         LET nFail == (IF delOk THEN 0 ELSE 1) + (IF createOk THEN 0 ELSE 1)
             afterDelete == IF delOk THEN NoFile ELSE blobIndex
             created == createOk /\ afterDelete.st = "missing"
         IN  /\ faults + nFail <= MaxFaults
             /\ faults' = faults + nFail
             /\ blobIndex' = IF created THEN indexFile ELSE afterDelete
             /\ log' = IF created THEN log ELSE log \cup {"could not upload index"}
    /\ failedFile' = IF Len(failed) > 0 THEN failed ELSE failedFile
    /\ pc' = "done"
    /\ UNCHANGED <<packages, i, index, stats, failed, cur, orchLoad, runs, builds, committed,
                   crashes,
                   packagesFile, indexFile, persisted, tmp, blob, qsVars>>

\* the bundler process is killed or the machine stops: its memory is gone, the
\* files and the bucket stay as they are
Crash ==
    /\ pc \in Running
    /\ crashes < MaxCrashes
    /\ crashes' = crashes + 1
    /\ pc' = "crashed"
    /\ packages' = <<>>
    /\ i' = 0
    /\ index' = EmptyIndex
    /\ stats' = ZeroStats
    /\ failed' = <<>>
    /\ cur' = NoCur
    /\ log' = {}
    /\ orchLoad' = "none"
    /\ committed' = NoCommits
    /\ UNCHANGED <<runs, builds, faults, diskVars, storeVars, qsVars>>

----------------------------------------------------------------------------
(* bundler.js: the external calls that have no timeout. execSync(`npm view`)
   and esbuild.build are given none, so a call that never returns leaves the
   process waiting in it; execSync(`npm install`) has timeout: 120000 and
   throws when it is reached, which is the failure outcome of Install *)

\* getLatestVersion: `npm view` never returns
ResolveHangs ==
    /\ pc = "pkg"
    /\ ~isBuiltIn(packages[i + 1])
    /\ FALSE \in Outcomes(packages[i + 1])
    /\ Fault(FALSE)
    /\ cur' = [NoCur EXCEPT !.pkg = packages[i + 1], !.before = index, !.calls = {"view"}]
    /\ pc' = "hung"
    /\ UNCHANGED <<packages, i, index, stats, failed, log, orchLoad, runs, builds, committed,
                   crashes,
                   diskVars, storeVars, qsVars>>

\* bundlePackage: the promise of esbuild.build never settles
BundleHangs ==
    /\ pc = "bundle"
    /\ FALSE \in Outcomes(cur.pkg)
    /\ Fault(FALSE)
    /\ cur' = [cur EXCEPT !.calls = @ \cup {"esbuild"}]
    /\ pc' = "hung"
    /\ UNCHANGED <<packages, i, index, stats, failed, log, orchLoad, runs, builds, committed,
                   crashes,
                   diskVars, storeVars, qsVars>>

----------------------------------------------------------------------------
(* API server: loadIndex, process start and POST /reload *)

\* loadIndex() of the server: JSON.parse is not guarded
qsLoadIndex(file, mem) ==
    IF file.st = "missing" THEN [index |-> mem, threw |-> FALSE]
    ELSE IF file.st = "ok" THEN [index |-> JsonParse(file.data), threw |-> FALSE]
    ELSE [index |-> mem, threw |-> TRUE]

\* node server.js: loadIndex() at module level, then app.listen
QSStart ==
    /\ qsState \in {"down", "crashed"}
    /\ LET ld == qsLoadIndex(indexFile, EmptyIndex)
       IN  /\ qsIndex' = ld.index
           /\ qsState' = IF ld.threw THEN "crashed" ELSE "up"
    /\ qsLoad' = [at |-> "start", found |-> indexFile.st]
    /\ qsResp' = NoResp
    /\ UNCHANGED <<orchVars, envVars, diskVars, storeVars>>

\* POST /reload; an exception thrown by a handler is answered with 500 by express
QSReload ==
    /\ qsState = "up"
    /\ LET ld == qsLoadIndex(indexFile, qsIndex)
       IN  /\ qsIndex' = ld.index
           /\ qsResp' = IF ld.threw
                        THEN [route |-> "reload", status |-> 500, entries |-> 0]
                        ELSE [route |-> "reload", status |-> 200,
                              entries |-> Cardinality(DOMAIN ld.index)]
    /\ qsLoad' = [at |-> "reload", found |-> indexFile.st]
    /\ UNCHANGED <<qsState, orchVars, envVars, diskVars, storeVars>>

\* str.includes(c)
Includes(s, c) == \E k \in 1..Len(s) : s[k] = c

\* str.startsWith(c)
StartsWith(s, c) == Len(s) > 0 /\ s[1] = c

\* the first position of c in s at or after from, Len(s) + 1 when there is none
First(s, c, from) ==
    IF \E k \in from..Len(s) : s[k] = c
    THEN CHOOSE k \in from..Len(s) : s[k] = c /\ \A o \in from..(k - 1) : s[o] # c
    ELSE Len(s) + 1

\* pkg.split('@'): parts[0] and parts[1]
SplitAt(s) ==
    LET a == First(s, "@", 1)
        b == First(s, "@", a + 1)
    IN  [first |-> SubSeq(s, 1, a - 1), second |-> SubSeq(s, a + 1, b - 1)]

\* pkg.match(/@[^/]+\/[^@]+@/)
ScopedTest(s) ==
    \E a \in 1..Len(s), j \in 1..Len(s), m \in 1..Len(s) :
        /\ s[a] = "@"
        /\ j > a + 1
        /\ \A k \in (a + 1)..(j - 1) : s[k] # "/"
        /\ s[j] = "/"
        /\ m > j + 1
        /\ \A k \in (j + 1)..(m - 1) : s[k] # "@"
        /\ s[m] = "@"

\* pkg.match(/^(@[^/]+\/[^@]+)@(.+)$/)
ScopedMatch(s) ==
    LET j == First(s, "/", 2)
        m == First(s, "@", j + 1)
    IN  IF StartsWith(s, "@") /\ j > 2 /\ j <= Len(s) /\ m > j + 1 /\ m < Len(s)
        THEN [matched |-> TRUE, first |-> SubSeq(s, 1, m - 1),
              second |-> SubSeq(s, m + 1, Len(s))]
        ELSE [matched |-> FALSE, first |-> Null, second |-> Null]

ParsePkgSplitOnly(path) ==
    IF Includes(path, "@")
    THEN [pkg |-> SplitAt(path).first, version |-> SplitAt(path).second]
    ELSE [pkg |-> path, version |-> Null]

\* GET /bundle/:pkg(*): "Parse package@version"; a null version and an empty
\* one are both Null, and both are falsy where the key is built
ParsePkg(path) ==
    IF Includes(path, "@") /\ ~StartsWith(path, "@")
    THEN [pkg |-> SplitAt(path).first, version |-> SplitAt(path).second]
    ELSE IF ScopedTest(path) /\ ScopedMatch(path).matched
    THEN [pkg |-> ScopedMatch(path).first, version |-> ScopedMatch(path).second]
    ELSE [pkg |-> path, version |-> Null]

\* version ? `${pkg}@${version}` : pkg
LookupKey(parsed) ==
    IF parsed.version # Null THEN Key(parsed.pkg, parsed.version) ELSE parsed.pkg

\* the index is a plain object: index[key] finds the members it inherits from
\* Object.prototype as well as its own
ObjectPrototypeKeys == {Constructor}

\* index[key]: an own member, an inherited one (truthy, with none of the
\* members of an entry), or undefined
Lookup(idx, key) ==
    IF key \in DOMAIN idx THEN "own"
    ELSE IF key \in ObjectPrototypeKeys THEN "inherited"
    ELSE "undefined"

\* the path a client builds for a name and a version
Path(name, version) == IF version = Null THEN name ELSE Key(name, version)

\* res.json(...) of the GET /bundle handler; JSON leaves out the members that
\* are undefined, which is every member read from an inherited one
BundleBody(idx, key, parsed) ==
    IF Lookup(idx, key) = "own"
    THEN [name |-> idx[key].name, version |-> idx[key].version, url |-> idx[key].url,
          fileId |-> idx[key].fileId, fileName |-> idx[key].fileName,
          size |-> idx[key].size, cached |-> TRUE]
    ELSE IF Lookup(idx, key) = "inherited"
    THEN [cached |-> TRUE]
    ELSE [name |-> parsed.pkg, version |-> parsed.version, cached |-> FALSE,
          error |-> "Package not found"]

\* GET /bundle/:pkg(*)
QSBundle ==
    /\ qsState = "up"
    /\ qsResp = NoResp
    /\ \E req \in BundleRequests :
         LET parsed == ParsePkg(Path(req.name, req.version))
             key == LookupKey(parsed)
         IN  qsResp' = [route |-> "bundle",
                        status |-> IF Lookup(qsIndex, key) = "undefined" THEN 404 ELSE 200,
                        req |-> req, parsed |-> parsed,
                        key |-> key, body |-> BundleBody(qsIndex, key, parsed)]
    /\ UNCHANGED <<qsState, qsIndex, qsLoad, orchVars, envVars, diskVars, storeVars>>

\* the bodies POST /bundle/batch is sent: arrays of keys, one with a key twice,
\* and a body whose packages member is no array
BatchBodies ==
    {[array |-> TRUE, packages |-> l] :
        l \in {<<Axios, Key(Axios, V1), Axios>>, <<Key(Scoped, V1), Scoped>>,
               <<Constructor, Key(Axios, V2)>>}}
    \cup {[array |-> FALSE, packages |-> <<>>]}

BatchItem(idx, pkgQuery) ==
    IF Lookup(idx, pkgQuery) = "own"
    THEN [name |-> idx[pkgQuery].name, version |-> idx[pkgQuery].version,
          url |-> idx[pkgQuery].url, cached |-> TRUE]
    ELSE IF Lookup(idx, pkgQuery) = "inherited"
    THEN [cached |-> TRUE]
    ELSE [cached |-> FALSE]

RECURSIVE BatchResultsByName(_, _, _)
BatchResultsByName(idx, list, n) ==
    IF n = 0 THEN <<>>
    ELSE Put(BatchResultsByName(idx, list, n - 1),
             IF Lookup(idx, list[n]) = "own" THEN idx[list[n]].name ELSE list[n],
             BatchItem(idx, list[n]))

\* for (const pkgQuery of packages) results[pkgQuery] = ...: results after the
\* first n keys
RECURSIVE BatchResults(_, _, _)
BatchResults(idx, list, n) ==
    IF n = 0 THEN <<>>
    ELSE Put(BatchResults(idx, list, n - 1), list[n], BatchItem(idx, list[n]))

QSBatchIntoIndex ==
    /\ qsState = "up"
    /\ qsResp = NoResp
    /\ \E body \in {b \in BatchBodies : b.array} :
         LET results == BatchResults(qsIndex, body.packages, Len(body.packages))
         IN  /\ qsIndex' = [k \in DOMAIN qsIndex \cup DOMAIN results |->
                               IF k \in DOMAIN results THEN results[k] ELSE qsIndex[k]]
             /\ qsResp' = [route |-> "batch", status |-> 200, req |-> body,
                           packages |-> results]
    /\ UNCHANGED <<qsState, qsLoad, orchVars, envVars, diskVars, storeVars>>

\* POST /bundle/batch
QSBatch ==
    /\ qsState = "up"
    /\ qsResp = NoResp
    /\ \E body \in BatchBodies :
         qsResp' = IF ~body.array
                   THEN [route |-> "batch", status |-> 400, req |-> body,
                         packages |-> <<>>]
                   ELSE [route |-> "batch", status |-> 200, req |-> body,
                         packages |-> BatchResults(qsIndex, body.packages,
                                                   Len(body.packages))]
    /\ UNCHANGED <<qsState, qsIndex, qsLoad, orchVars, envVars, diskVars, storeVars>>

\* the item GET /versions pushes for an entry
VersionItem(value) ==
    [version |-> value.version, url |-> value.url, size |-> value.size,
     uploadedAt |-> value.uploadedAt]

\* versions.sort((a, b) => b.uploadedAt?.localeCompare(a.uploadedAt)) over the
\* items of the given keys: newest first; items with one timestamp are those of
\* one upload and are equal
RECURSIVE SortNewestFirst(_, _)
SortNewestFirst(idx, keys) ==
    IF keys = {} THEN <<>>
    ELSE LET k == CHOOSE x \in keys :
                      \A o \in keys : idx[x].uploadedAt >= idx[o].uploadedAt
         IN  <<VersionItem(idx[k])>> \o SortNewestFirst(idx, keys \ {k})

\* the keys GET /versions keeps: value.name === pkg && key.includes('@')
VersionKeysOf(idx, pkg) == {k \in DOMAIN idx : idx[k].name = pkg /\ Includes(k, "@")}

\* GET /versions/:pkg(*)
QSVersions ==
    /\ qsState = "up"
    /\ qsResp = NoResp
    /\ \E pkg \in RequestNames :
         LET versions == SortNewestFirst(qsIndex, VersionKeysOf(qsIndex, pkg))
         IN  qsResp' = [route |-> "versions", status |-> 200, name |-> pkg,
                        versions |-> versions, count |-> Len(versions)]
    /\ UNCHANGED <<qsState, qsIndex, qsLoad, orchVars, envVars, diskVars, storeVars>>

\* the keys GET /stats counts: key.includes('@') && value.name
StatsKeys(idx) == {k \in DOMAIN idx : Includes(k, "@") /\ idx[k].name # Null}

RECURSIVE SumSizes(_, _)
SumSizes(idx, keys) ==
    IF keys = {} THEN 0
    ELSE LET k == CHOOSE x \in keys : TRUE
         IN  idx[k].size + SumSizes(idx, keys \ {k})

\* (totalSize / 1024 / 1024).toFixed(2), in hundredths of a MB
ToFixed2MB(bytes) == (bytes * 100 + Mebi \div 2) \div Mebi

\* GET /stats
QSStats ==
    /\ qsState = "up"
    /\ qsResp = NoResp
    /\ qsResp' = [route |-> "stats", status |-> 200,
                  uniquePackages |-> Cardinality({qsIndex[k].name : k \in StatsKeys(qsIndex)}),
                  totalVersions |-> Cardinality(StatsKeys(qsIndex)),
                  totalSize |-> ToFixed2MB(SumSizes(qsIndex, StatsKeys(qsIndex)))]
    /\ UNCHANGED <<qsState, qsIndex, qsLoad, orchVars, envVars, diskVars, storeVars>>

\* the client of the lookups has its response and sends its next request after
\* that; POST /reload comes from the operator, at any time
QSSent ==
    /\ qsState = "up"
    /\ qsResp # NoResp
    /\ qsResp' = NoResp
    /\ UNCHANGED <<qsState, qsIndex, qsLoad, orchVars, envVars, diskVars, storeVars>>

\* GET /health
QSHealth ==
    /\ qsState = "up"
    /\ qsResp = NoResp
    /\ qsResp' = [route |-> "health", status |-> 200]
    /\ UNCHANGED <<qsState, qsIndex, qsLoad, orchVars, envVars, diskVars, storeVars>>

----------------------------------------------------------------------------
Next ==
    \/ MainStart
    \/ Resolve
    \/ Install
    \/ Bundle
    \/ Upload
    \/ Account
    \/ SaveOpen
    \/ SaveWrite
    \/ FinalSaveOpen
    \/ FinalSaveWrite
    \/ Mirror
    \/ Crash
    \/ QSStart
    \/ QSReload

Spec == Init /\ [][Next]_vars

\* a step of a bundler process that is not waiting for a call
BundlerStep ==
    \/ Resolve
    \/ Install
    \/ Bundle
    \/ Upload
    \/ Account
    \/ FinalSaveOpen
    \/ FinalSaveWrite
    \/ Mirror

\* the bundler over the short lists, with calls that may never return; the
\* periodic save of the loop never comes due on these lists
HangNext ==
    \/ MainStart
    \/ Resolve
    \/ Install
    \/ Bundle
    \/ Upload
    \/ Account
    \/ FinalSaveOpen
    \/ FinalSaveWrite
    \/ Mirror
    \/ Crash
    \/ ResolveHangs
    \/ BundleHangs
    \/ QSStart
    \/ QSReload

\* node runs the code of a started process on: a bundler process that is not
\* killed and not waiting for a call takes its next step
HangInit == InitFrom(ShortLists)

\* node runs the code of a started process on: a bundler process that is not
\* killed and not waiting for a call takes its next step

HangSpec == HangInit /\ [][HangNext]_vars /\ WF_vars(BundlerStep)

\* the bundler over the list of the queried index, and the API server with its
\* clients; that list is shorter than a save period, so the periodic save of
\* the loop never comes due
QueryInit == InitFrom(QueryLists)

QueryNext ==
    \/ MainStart
    \/ Resolve
    \/ Install
    \/ Bundle
    \/ Upload
    \/ Account
    \/ FinalSaveOpen
    \/ FinalSaveWrite
    \/ Mirror
    \/ Crash
    \/ QSStart
    \/ QSReload
    \/ QSSent
    \/ QSBundle
    \/ QSBatch
    \/ QSVersions
    \/ QSStats
    \/ QSHealth

QuerySpec == QueryInit /\ [][QueryNext]_vars

----------------------------------------------------------------------------
(* Properties *)

\* the index the pipeline in progress (or the last one) started from had
\* the key of the version it resolved
WasBundled ==
    /\ cur.version # Null
    /\ Key(cur.pkg, cur.version) \in DOMAIN cur.before

\* the versioned entries of the in-memory index the snapshot on disk lacks
Unsaved ==
    {k \in VersionedKeys(index) :
        indexFile.st # "ok" \/ k \notin DOMAIN indexFile.data}

\* the versioned entries of idx for the package name n
EntriesOf(idx, n) == {k \in DOMAIN idx : IsVersionedKey(k) /\ idx[k].name = n}

\* C1: a package whose resolved version already has its versioned key in the
\* index, whether committed earlier in this run or loaded from the snapshot,
\* is recorded as skipped with reason 'version_exists'; the registry lookup is
\* the only external call made for it and the index is left as it was.
C1_IdempotentSkip ==
    WasBundled =>
        /\ cur.result = Skipped("version_exists", cur.version)
        /\ cur.calls = {"view"}
        /\ index = cur.before

\* a second process loaded the snapshot and skipped its first package
C1_Witness ==
    /\ runs = 2
    /\ orchLoad = "ok"
    /\ pc = "account"
    /\ i = 0
    /\ WasBundled
    /\ cur.result.reason = "version_exists"

\* C2 as stated: once name@version is in the index, no run of the pipeline
\* builds that (name, version) again, so over all runs every name@version is
\* committed at most once.
C2_BuiltAtMostOnce ==
    \A k \in DOMAIN builds : builds[k] <= 1

\* C2 amended: within one bundler process, a versioned key that is in the
\* in-memory index keeps its entry in every later step of that process, and
\* the process never goes on to install, bundle or upload a (name, version)
\* whose key is in its index.
C2_WriteOnceInProcess ==
    [][ (runs' = runs /\ pc' # "crashed") =>
          /\ \A k \in VersionedKeys(index) : k \in DOMAIN index' /\ index'[k] = index[k]
          /\ pc' \in {"install", "bundle", "upload"} =>
                Key(cur'.pkg, cur'.version) \notin DOMAIN index' ]_vars

\* the same name resolved to the same version twice in one process: committed
\* by the first pipeline, skipped by the second
C2_Witness ==
    /\ pc = "account"
    /\ i = 2
    /\ runs = 1
    /\ cur.result.reason = "version_exists"
    /\ Key(cur.pkg, cur.version) \in DOMAIN builds
    /\ stats.bundled = 1

\* C3: a bare-name entry is the copy, tagged with latestVersion, of the
\* versioned entry of that name that was committed last (the one with the
\* latest upload time among the versioned entries of the name), whatever the
\* order of the version strings.
C3_BarePointerMirrorsLastCommit ==
    \A n \in Names \cap DOMAIN index :
        LET e == index[n]
            k == Key(n, e.latestVersion)
        IN  /\ k \in DOMAIN index
            /\ e = LatestPointer(index[k])
            /\ \A k2 \in EntriesOf(index, n) : index[k2].uploadedAt <= e.uploadedAt

\* version 2 was committed first and version 1 after it: the pointer is at 1
C3_Witness ==
    /\ Axios \in DOMAIN index
    /\ index[Axios].latestVersion = V1
    /\ Key(Axios, V2) \in DOMAIN index
    /\ Key(Axios, V1) \in DOMAIN index

\* C4: when a pipeline has committed (name, version), the skip check had
\* found the version not built, isVersionBundled(name, version) now holds and
\* the bare-name pointer of name has latestVersion = version.
C4_CommitMakesBuilt ==
    cur.result.kind = "bundled" =>
        /\ ~WasBundled
        /\ isVersionBundled(cur.pkg, cur.version)
        /\ cur.pkg \in DOMAIN index
        /\ index[cur.pkg].latestVersion = cur.version

\* a second version of a name was committed over an existing pointer
C4_Witness ==
    /\ pc = "account"
    /\ cur.result.kind = "bundled"
    /\ cur.pkg \in DOMAIN cur.before
    /\ cur.before[cur.pkg].latestVersion # cur.version

\* C5: every versioned key of the index is the key of its entry's name and
\* version, and the bucket holds, under the entry's fileId, the bundle that was
\* built for exactly that name and version, stored under the entry's file name.
C5_EntriesHaveArtifacts ==
    \A k \in VersionedKeys(index) :
        LET e == index[k]
        IN  /\ k = Key(e.name, e.version)
            /\ e.fileId \in DOMAIN blob
            /\ blob[e.fileId].bytes = <<e.name, e.version>>
            /\ blob[e.fileId].fileName = e.fileName

\* an upload failed in a process whose index holds entries
C5_Witness ==
    /\ pc = "account"
    /\ cur.result.error = "upload failed"
    /\ VersionedKeys(index) # {}

\* the names of the package list in use and the built-in names
ListedNames == {packagesFile[k] : k \in DOMAIN packagesFile} \cup SKIP_PACKAGES

\* C6: isVersionBundled(name, version) holds exactly when the index has the
\* key name@version; the bare-name entry of the name does not make it hold.
\* (Every entry of the index is an entry of a listed name, so the names that
\* are not listed have neither.)
C6_IsBuiltIffVersionedKey ==
    /\ \A k \in DOMAIN index : index[k].name \in ListedNames
    /\ \A n \in ListedNames, v \in Versions :
          isVersionBundled(n, v) <=> Key(n, v) \in DOMAIN index

\* an index loaded from the snapshot with the pointer and one version of a name
C6_Witness ==
    /\ orchLoad = "ok"
    /\ pc = "pkg"
    /\ Axios \in DOMAIN index
    /\ Key(Axios, V1) \in DOMAIN index
    /\ Key(Axios, V2) \notin DOMAIN index
    /\ ~isVersionBundled(Axios, V2)

\* C7: a pipeline that failed (no version, install, bundle or upload) leaves
\* the index as it found it; main counts the package as failed and goes on to
\* the next package of the list (or to the periodic or final save).
C7_FailureIsolation ==
    [][ /\ cur'.result.kind = "failed" => index' = cur'.before
        /\ (pc = "account" /\ cur.result.kind = "failed" /\ pc' \notin {"account", "crashed"}) =>
              /\ index' = cur.before
              /\ stats'.failed = stats.failed + 1
              /\ stats'.bundled = stats.bundled
              /\ stats'.skippedExists = stats.skippedExists
              /\ \/ pc' = "save" /\ i' = i
                 \/ pc' = "pkg" /\ i' = i + 1 /\ i' < Len(packages)
                 \/ pc' = "final" /\ i' = Len(packages) ]_vars

\* a package failed and a later package of the same run was built
C7_Witness ==
    /\ pc = "account"
    /\ stats.failed = 1
    /\ cur.result.kind = "bundled"
    /\ cur.before = EmptyIndex

\* C8 as stated: at every point of a run at most SaveEvery = 25 versioned
\* entries of the in-memory index are missing from the snapshot on disk
\* (a snapshot that is being rewritten holds nothing).
C8_BoundedCrashLoss ==
    pc \in Running => Cardinality(Unsaved) <= SaveEvery

\* C9 as stated: when the server's loadIndex finds the file missing or
\* unparseable, the server is up, the reload request is not answered with an
\* error, and the in-memory index is empty.
C9_QueryLoadNeverFails ==
    qsLoad.found \in {"missing", "partial"} =>
        /\ qsState = "up"
        /\ qsResp.status # 500
        /\ qsIndex = EmptyIndex

\* C10 as stated: a bundler process that found the snapshot unparseable runs
\* from the empty index only with a corruption warning on its console.
C10_CorruptLoadReported ==
    (pc \in Running /\ orchLoad = "partial") => "corrupt index" \in log

----------------------------------------------------------------------------
(* Properties of the API server *)

\* the keys of a list
Range(list) == {list[k] : k \in 1..Len(list)}

BatchAnswered == qsResp.route = "batch" /\ qsResp.status = 200

\* C11 as stated: a batch lookup on N input keys, duplicates included, returns
\* exactly N entries, each keyed by one of the inputs.
C11_BatchOneEntryPerInput ==
    BatchAnswered =>
        /\ DOMAIN qsResp.packages \subseteq Range(qsResp.req.packages)
        /\ Cardinality(DOMAIN qsResp.packages) = Len(qsResp.req.packages)

\* C11, amended: a batch lookup returns exactly one entry for each distinct
\* input key, keyed by that input string; it returns N entries for N input
\* keys when these are pairwise distinct.
C11_BatchOneEntryPerDistinctInput ==
    BatchAnswered =>
        LET in == qsResp.req.packages
        IN  /\ DOMAIN qsResp.packages = Range(in)
            /\ (\A a, b \in 1..Len(in) : a # b => in[a] # in[b])
                  => Cardinality(DOMAIN qsResp.packages) = Len(in)

\* a batch lookup of a list with a key twice was answered, one of its keys
\* being in the index under a name that is not the key
C11_Witness ==
    /\ BatchAnswered
    /\ Cardinality(DOMAIN qsResp.packages) < Len(qsResp.req.packages)
    /\ \E k \in DOMAIN qsResp.packages :
         k \in DOMAIN qsIndex /\ qsIndex[k].name # k

\* C12 as stated: the keys of a batch result are the distinct input keys; a
\* key of the in-memory index maps to cached:true with the name, version and
\* url of the entry under that very key, any other key to cached:false.
C12_BatchCachedIffPresent ==
    BatchAnswered =>
        /\ DOMAIN qsResp.packages = Range(qsResp.req.packages)
        /\ \A k \in DOMAIN qsResp.packages :
             IF k \in DOMAIN qsIndex
             THEN qsResp.packages[k] =
                      [name |-> qsIndex[k].name, version |-> qsIndex[k].version,
                       url |-> qsIndex[k].url, cached |-> TRUE]
             ELSE qsResp.packages[k] = [cached |-> FALSE]

BundleAnswered == qsResp.route = "bundle"

ParsedAsSent ==
    /\ qsResp.parsed.pkg = qsResp.req.name
    /\ qsResp.parsed.version = qsResp.req.version
    /\ qsResp.key = Path(qsResp.req.name, qsResp.req.version)

\* C13 as stated: for every name N, unscoped or scoped, and every non-empty
\* version V, GET /bundle/N@V is parsed to (N, V) and looks up the key N@V,
\* and GET /bundle/N is parsed to (N, no version) and looks up the bare key N.
C13_ParseInvertsKey ==
    BundleAnswered => ParsedAsSent

\* C13, amended: the same, for every version V that holds no '@' when the
\* name is unscoped; for a scoped name every non-empty V is parsed back.
C13_ParseInvertsKeyWithoutAt ==
    (BundleAnswered
        /\ (StartsWith(qsResp.req.name, "@") \/ ~Includes(qsResp.req.version, "@")))
    => ParsedAsSent

\* a lookup of a scoped name with a version was parsed
C13_Witness ==
    /\ BundleAnswered
    /\ qsResp.req.name = Scoped
    /\ qsResp.req.version = VAt
    /\ qsResp.parsed = [pkg |-> Scoped, version |-> VAt]

\* C14 as stated: a single lookup whose key is not in the in-memory index is
\* answered 404 with the parsed name, the parsed version and cached:false,
\* never with cached:true.
C14_AbsentKeyIs404 ==
    (BundleAnswered /\ qsResp.key \notin DOMAIN qsIndex) =>
        /\ qsResp.status = 404
        /\ qsResp.body.cached = FALSE
        /\ qsResp.body.name = qsResp.parsed.pkg
        /\ qsResp.body.version = qsResp.parsed.version

\* the versions of a name the bundler has committed
BuiltVersions(name) == {v \in Versions : Key(name, v) \in DOMAIN builds}

\* the version of a name the finished run committed last
LastBuilt(name) ==
    CHOOSE v \in BuiltVersions(name) :
        \A o \in BuiltVersions(name) :
            persisted[Key(name, v)].uploadedAt >= persisted[Key(name, o)].uploadedAt

\* a run that started without a snapshot is complete, the server holds the
\* snapshot of its end and has answered a single lookup
ServedAfterRun ==
    /\ pc = "done"
    /\ orchLoad = "missing"
    /\ qsState = "up"
    /\ qsIndex = persisted
    /\ BundleAnswered

Hit(name, version) ==
    /\ qsResp.status = 200
    /\ qsResp.body.cached
    /\ qsResp.body.name = name
    /\ qsResp.body.version = version

\* C15 as stated: after a complete run from an empty index in which P
\* resolved to V was built and uploaded, a server that loads the snapshot
\* answers GET /bundle/P and GET /bundle/P@V with 200, name P, version V and
\* cached:true.
C15_BuiltThenServed ==
    ServedAfterRun =>
        \A v \in BuiltVersions(qsResp.req.name) :
            qsResp.req.version \in {Null, v} => Hit(qsResp.req.name, v)

\* C15, amended: GET /bundle/P@V is answered so for every V the run built for
\* P; GET /bundle/P is answered with the version the run committed last for P,
\* which is V when the run built one version of P.
C15_BuiltThenServedLatest ==
    ServedAfterRun =>
        \A v \in BuiltVersions(qsResp.req.name) :
            /\ qsResp.req.version = v => Hit(qsResp.req.name, v)
            /\ qsResp.req.version = Null =>
                   Hit(qsResp.req.name, LastBuilt(qsResp.req.name))

\* after a run that built two versions of a package the bare lookup of that
\* package was answered
C15_Witness ==
    /\ ServedAfterRun
    /\ qsResp.req.version = Null
    /\ Cardinality(BuiltVersions(qsResp.req.name)) = 2
    /\ qsResp.status = 200

StatsAnswered == qsResp.route = "stats"

\* C16 as stated: GET /stats reports the number of distinct names with a
\* versioned entry, the number of versioned keys and the sum of the sizes of
\* the versioned entries; bare pointers, scoped ones included, do not count.
C16_StatsCountVersionedOnly ==
    StatsAnswered =>
        /\ qsResp.uniquePackages =
               Cardinality({qsIndex[k].name : k \in VersionedKeys(qsIndex)})
        /\ qsResp.totalVersions = Cardinality(VersionedKeys(qsIndex))
        /\ qsResp.totalSize = ToFixed2MB(SumSizes(qsIndex, VersionedKeys(qsIndex)))

VersionsAnswered == qsResp.route = "versions"

\* C17 as stated: GET /versions/N lists one item for each versioned key N@v
\* and none for the bare pointer, for scoped names too, newest upload first.
C17_VersionsListVersionedOnly ==
    VersionsAnswered =>
        LET want == {k \in VersionedKeys(qsIndex) : qsIndex[k].name = qsResp.name}
            got == qsResp.versions
        IN  /\ qsResp.count = Cardinality(want)
            /\ Len(got) = Cardinality(want)
            /\ Range(got) = {VersionItem(qsIndex[k]) : k \in want}
            /\ \A x, y \in 1..Len(got) :
                 x < y => got[x].uploadedAt >= got[y].uploadedAt

\* a step of the API server that loads the index
LoadStep ==
    /\ UNCHANGED <<orchVars, envVars, diskVars, storeVars>>
    /\ qsState # "up" \/ qsResp'.route = "reload"

\* C18: when the bundler has persisted the index I and the server loads or
\* reloads the complete file, the server's in-memory index is I whatever it
\* held before, and a reload reports as `entries` the number of keys of I.
C18_ReloadRoundTrip ==
    [][ (LoadStep /\ indexFile.st = "ok") =>
            /\ qsState' = "up"
            /\ qsIndex' = persisted
            /\ qsState = "up" =>
                   /\ qsResp'.status = 200
                   /\ qsResp'.entries = Cardinality(DOMAIN persisted) ]_vars

\* the server, started on an earlier snapshot, has reloaded a later one
C18_Witness ==
    /\ qsLoad = [at |-> "reload", found |-> "ok"]
    /\ qsResp.route = "reload"
    /\ qsResp.entries >= 4
    /\ qsIndex = persisted

\* C19: the server's in-memory index changes only when the server starts and
\* on POST /reload; the lookups, the batch lookup, the version listing, the
\* statistics and the health check leave it as it is, and a step of the
\* bundler changes neither that index nor an answer of the server.
C19_IndexChangesOnlyOnLoad ==
    [][ /\ qsIndex' # qsIndex => LoadStep
        /\ ~UNCHANGED <<orchVars, envVars, diskVars, storeVars>> => UNCHANGED qsVars ]_vars

\* the server, started before the bundler persisted a key, answers the lookup
\* of that key from the index it loaded
C19_Witness ==
    /\ BundleAnswered
    /\ qsLoad.found = "missing"
    /\ indexFile.st = "ok"
    /\ qsResp.key \in DOMAIN persisted
    /\ qsResp.status = 404

\* C20 as stated: a load or reload of the server that interleaves with a
\* persist of the bundler never reads a half-written snapshot.
C20_LoadSeesWholeSnapshot ==
    crashes = 0 => qsLoad.found # "partial"

----------------------------------------------------------------------------
(* Properties of the bundler: termination, mirror, accounting, side file,
   built-in names, cleanup *)

\* C21 as stated: a package whose version lookup or install/bundle step never
\* returns is treated as failed after a bounded time, so a bundler process
\* that is not killed reaches its final save and summary.
C21_RunTerminates ==
    (pc \in Running) ~> (pc \in {"done", "crashed"})

\* the file the bucket holds under the id 'index' is the snapshot of the last
\* completed save
MirrorIsFinal ==
    /\ blobIndex.st = "ok"
    /\ JsonParse(blobIndex.data) = persisted

\* C22 as stated: when a run is complete the bucket holds under the id 'index'
\* the snapshot the run persisted last, whatever the outcomes of the calls
\* that replace the previous one.
C22_MirrorEqualsFinal ==
    pc = "done" => MirrorIsFinal

\* C22, amended: the end of a run leaves under the id 'index' the snapshot the
\* run persisted last when storage.createFile succeeds; when it fails, a
\* warning is printed and the bucket holds the previous snapshot (the delete
\* failed) or none (the delete succeeded).
C22_MirrorBestEffort ==
    [][ (pc = "mirror" /\ pc' = "done") =>
            \/ /\ "could not upload index" \notin log'
               /\ blobIndex'.st = "ok"
               /\ JsonParse(blobIndex'.data) = persisted
            \/ /\ "could not upload index" \in log'
               /\ blobIndex' \in {blobIndex, NoFile} ]_vars

\* a second run has replaced the snapshot the first run left in the bucket
C22_Witness ==
    /\ pc = "done"
    /\ runs = 2
    /\ MirrorIsFinal
    /\ orchLoad = "ok"
    /\ Cardinality(DOMAIN persisted) = 3
    /\ "could not upload index" \notin log

\* the commit of the package in progress that main has not counted yet:
\* bundlePackage updates the index before it returns, main counts on return
PendingCommits == IF pc = "account" /\ cur.result.kind = "bundled" THEN 1 ELSE 0
PendingBytes == IF pc = "account" /\ cur.result.kind = "bundled" THEN cur.result.size ELSE 0

\* the packages main has counted: i, and the package at i while the periodic
\* save that follows its count is under way
Processed == IF pc \in {"save", "saving"} THEN i + 1 ELSE i

\* C23: at every point of a run the bundled counter is the number of commits
\* of this run and the new bytes are the sum of their sizes, a package being
\* counted when bundlePackage has returned, after its commit; and the four
\* counters add up to the number of packages processed so far.
C23_RunAccounting ==
    pc \in Running \cup {"done"} =>
        /\ stats.bundled + PendingCommits = committed.n
        /\ stats.totalSize + PendingBytes = committed.bytes
        /\ stats.bundled + stats.skippedBuiltin + stats.skippedExists + stats.failed
               = Processed

\* a run is complete in which one package was built, one was built in and
\* one failed
C23_Witness ==
    /\ pc = "done"
    /\ stats.bundled = 1
    /\ stats.skippedBuiltin = 1
    /\ stats.failed = 1
    /\ committed = [n |-> 1, bytes |-> stats.totalSize]

\* C24 as stated: when a run is complete ./data/failed.json lists a record
\* {name, version, error} for each failed package of that run, in order, and
\* none of an earlier run; after a run without failures it holds no record.
C24_FailedFileIsThisRun ==
    pc = "done" => failedFile = failed

\* C25: a name of the host-provided set is recorded as skipped with reason
\* 'builtin' before any other step: bundlePackage returns for it with no call
\* made (no version resolution, install, bundle or upload), no cleanup run and
\* the index as it was, and no working directory, stored file or index entry
\* of that name ever exists.
C25_BuiltinSkippedFirst ==
    /\ \A p \in SKIP_PACKAGES :
          /\ TmpDir(p) \notin tmp
          /\ \A id \in DOMAIN blob : blob[id].bytes[1] # p
          /\ \A key \in DOMAIN index : index[key].name # p
    /\ (pc = "account" /\ cur.pkg \in SKIP_PACKAGES) =>
          /\ cur.result = Skipped("builtin", Null)
          /\ cur.calls = {}
          /\ cur.rm = "none"
          /\ index = cur.before

\* bundlePackage has returned for a built-in name while the index holds
\* entries and is larger than the persisted one
C25_Witness ==
    /\ pc = "account"
    /\ cur.pkg = React
    /\ cur.result = Skipped("builtin", Null)
    /\ DOMAIN index # {}
    /\ index # persisted

\* bundlePackage has returned from inside its try block: the working
\* directory was made and the finally block has run
Returned == pc = "account" /\ "install" \in cur.calls

\* the result and the index are those of the stage that ended the pipeline
StageResult ==
    \/ /\ cur.result = Bundled(cur.version, cur.size)
       /\ "upload" \in cur.calls
       /\ Key(cur.pkg, cur.version) \in DOMAIN index
       /\ index = Commit(cur.before, index[Key(cur.pkg, cur.version)])
    \/ /\ \E error \in {"install failed", "Build failed", "upload failed"} :
             cur.result = Failure(error, cur.version)
       /\ index = cur.before

\* C26 as stated: whenever bundlePackage returns, the working directory
\* created for the package no longer exists.
C26_TmpDirGone ==
    Returned => TmpDir(cur.pkg) \notin tmp

\* C26: whenever bundlePackage returns after making the working directory
\* the cleanup has run; the directory no longer exists unless the removal
\* itself failed, and then it is left behind; with either outcome of the
\* removal the result and the index are those of the stage that ended the
\* pipeline. A return before the try block (built-in, no version, version
\* exists) makes no directory and runs no cleanup.
C26_CleanupBestEffort ==
    /\ Returned =>
          /\ cur.rm \in {"removed", "failed"}
          /\ cur.rm = "removed" => TmpDir(cur.pkg) \notin tmp
          /\ cur.rm = "failed" => TmpDir(cur.pkg) \in tmp
          /\ StageResult
    /\ (pc = "account" /\ "install" \notin cur.calls) => cur.rm = "none"

\* a package was committed, and the index changed, although the removal of
\* its working directory failed
C26_Witness ==
    /\ Returned
    /\ cur.rm = "failed"
    /\ cur.result.kind = "bundled"
    /\ TmpDir(cur.pkg) \in tmp
    /\ index # cur.before

====
